---- MODULE Spec2Model ----
(***************************************************************************)
(* NewsMind: the ingestion pipeline (modules/news_fetcher.py with          *)
(* modules/summarizer.py and modules/embedding_manager.py), the retriever  *)
(* and answer generator (modules/chat_agent.py) and the article            *)
(* interaction routes of app.py, over the tables of models.py.             *)
(*                                                                         *)
(* Python values: None is the string NULL; a str is a TLA+ string; a text  *)
(* whose content does not matter is a record of its length and prefix; a   *)
(* JSON-serialized vector is a record [kind, vec]; a float similarity is a *)
(* record [nan, val] with val in hundredths.                               *)
(***************************************************************************)
EXTENDS Integers, Sequences, FiniteSets, TLC

VARIABLES
    env,          \* the API keys read from the environment at import time
    articles,     \* table articles (models.Article), in insertion (id) order
    fetch,        \* the fetch_from_newsapi invocation in progress or last finished
    chat_history, \* table chat_history (models.ChatHistory), in insertion order
    clock,        \* datetime.utcnow(), as a tick counter
    answer,       \* the last answer_question, retrieve_relevant_articles or
                  \* compute_similarity invocation
    user_articles,\* table user_articles (models.UserArticle), in insertion order
    reqs,         \* the article interaction requests in flight, by worker
    peer          \* another answer_question invocation, running beside the one
                  \* that answer follows

vars == <<env, articles, fetch, chat_history, clock, answer, user_articles, reqs, peer>>

\* ------------------------------------------------------------------ bounds
\* Longest result list the news source returns in one call (page_size).
MaxItems == 3
\* Most articles in the table when questions are asked.
MaxStore == 4
\* Largest top_k asked of the retriever.
MaxTopK == 4
\* Most question/answer exchanges.
MaxExchanges == 2
\* No further interaction request is taken once the clock shows this.
MaxClock == 3

\* ---------------------------------------------------------------- constants
\* top_k: int = 3
DefaultTopK == 3

\* ----------------------------------------------------------- Python values
NULL == "<None>"

\* Python truthiness of an optional str: None and "" are falsy.
Falsy(s) == s = NULL \/ s = ""

Range(s) == { s[k] : k \in 1..Len(s) }

Max(a, b) == IF a >= b THEN a ELSE b
Min(a, b) == IF a <= b THEN a ELSE b

\* ------------------------------------------------------------- embeddings
\* json.dumps(vector): the text column holds the serialized list.
JsonDumps(v) == [kind |-> "json", vec |-> v]
\* The empty-vector sentinel "[]".
EmptyEmbedding == JsonDumps(<<>>)

\* SentenceTransformer.encode(text).tolist(): a fixed vector per text. A text
\* is the pair <<title, summary>> of the f-string of news_fetcher.py:77, or
\* <<query>> for a chat query. The encoder (all-MiniLM-L6-v2) returns no
\* vector of magnitude zero; the vectors stand here up to their length, which
\* the cosine divides out.
Encode(text) ==
    CASE text = <<"A", "- fact">> -> <<3, 4>>
      [] text = <<"B", "- fact">> -> <<4, -3>>
      [] text = <<"A", "Summary unavailable.">> -> <<-3, -4>>
      [] text = <<"B", "Summary unavailable.">> -> <<0, 5>>
      [] text = <<"q1">> -> <<1, 0>>
      [] text = <<"q2">> -> <<3, 4>>
      [] OTHER -> <<0, -1>>

\* str.strip() of the strings of the model: whitespace-only becomes "".
Strip(s) == IF s = " " THEN "" ELSE s

RECURSIVE AllBlank(_)
AllBlank(text) ==
    IF text = <<>> THEN TRUE
    ELSE Strip(Head(text)) = "" /\ AllBlank(Tail(text))

\* generate_embedding(text)
GenerateEmbedding(text) ==
    IF AllBlank(text) THEN EmptyEmbedding ELSE JsonDumps(Encode(text))

\* A float, in hundredths; numpy's nan is its own value.
Float(v) == [nan |-> FALSE, val |-> v]
NaN == [nan |-> TRUE, val |-> 0]

RECURSIVE Dot(_, _)
Dot(v, w) ==
    IF v = <<>> THEN 0 ELSE Head(v) * Head(w) + Dot(Tail(v), Tail(w))

\* np.linalg.norm(v), for the vectors of the model (their norms are whole).
Norm(v) ==
    LET n2 == Dot(v, v)
    IN  CHOOSE r \in 0..n2 : r * r <= n2 /\ (r + 1) * (r + 1) > n2

\* compute_similarity without the size check of line 40: two empty vectors
\* reach the division.
ComputeSimilarity_NoSizeCheck(vec1, vec2) ==
    IF vec1.kind # "json" \/ vec2.kind # "json" THEN Float(0)
    ELSE LET v1 == vec1.vec
             v2 == vec2.vec
         IN  IF Len(v1) # Len(v2) THEN Float(0)
             ELSE IF Norm(v1) * Norm(v2) = 0 THEN NaN
             ELSE Float((100 * Dot(v1, v2)) \div (Norm(v1) * Norm(v2)))

\* compute_similarity(vec1, vec2)
ComputeSimilarity(vec1, vec2) ==
    IF vec1.kind # "json" \/ vec2.kind # "json" THEN Float(0)      \* json.loads raises
    ELSE LET v1 == vec1.vec
             v2 == vec2.vec
         IN  IF Len(v1) = 0 \/ Len(v2) = 0 THEN Float(0)
             ELSE IF Len(v1) # Len(v2) THEN Float(0)                \* np.dot raises
             ELSE IF Norm(v1) * Norm(v2) = 0 THEN NaN               \* 0.0 / 0.0
             ELSE Float((100 * Dot(v1, v2)) \div (Norm(v1) * Norm(v2)))

\* --------------------------------------------------------- text extraction
\* A text is known by its length and by whether it starts with "[Extractor]".
NoText == [none |-> TRUE, len |-> 0, extractor |-> FALSE]
Text(n, x) == [none |-> FALSE, len |-> n, extractor |-> x]

\* extract_full_text(url): page is what newspaper makes of the URL, fetched
\* says whether download() and parse() went through.
ExtractFullText(page) ==
    IF ~page.fetched THEN NoText
    ELSE IF page.len < 200 THEN NoText
    ELSE Text(page.len, page.extractor)

\* What the pages behind the candidate URLs can be.
Pages ==
    { [fetched |-> FALSE, len |-> 0, extractor |-> FALSE],
      [fetched |-> TRUE, len |-> 199, extractor |-> FALSE],
      [fetched |-> TRUE, len |-> 200, extractor |-> FALSE],
      [fetched |-> TRUE, len |-> 300, extractor |-> TRUE] }

\* ------------------------------------------------------------ summarizer
\* A chat completion either raises or yields the message content.
LlmError == [raised |-> TRUE, content |-> ""]
LlmReply(s) == [raised |-> FALSE, content |-> s]

\* The result of a call that may raise.
Raised == [raised |-> TRUE, value |-> ""]
Returned(v) == [raised |-> FALSE, value |-> v]

\* The bullet normalisation of summarize_article, on the replies of the model.
CleanSummary(s) == IF s = "(bullet) fact" THEN "- fact" ELSE Strip(s)

\* summarize_article(title, text)
SummarizeArticle(key, reply) ==
    IF Falsy(key) THEN Raised
    ELSE IF reply.raised THEN Returned("Summary unavailable.")
    ELSE Returned(CleanSummary(reply.content))

\* str.strip().lower() of the classifier's replies.
StripLower(s) ==
    CASE s = " Negative" -> "negative"
      [] s = "Positive" -> "positive"
      [] OTHER -> s

\* analyze_sentiment without the check of the label against the three allowed.
AnalyzeSentiment_Unchecked(reply) ==
    IF reply.raised THEN "neutral" ELSE StripLower(reply.content)

\* analyze_sentiment(summary_text)
AnalyzeSentiment(reply) ==
    IF reply.raised THEN "neutral"
    ELSE LET sentiment == StripLower(reply.content)
         IN  IF sentiment \notin {"positive", "neutral", "negative"} THEN "neutral"
             ELSE sentiment

SummaryReplies == {LlmError, LlmReply("(bullet) fact")}
SentimentReplies == {LlmError, LlmReply(" Negative"), LlmReply("mixed")}

\* ------------------------------------------------------- ingestion pipeline
\* item["source"]: the key absent, null, or an object with a name (maybe null).
SourceMissing == [kind |-> "missing", name |-> ""]
SourceNull == [kind |-> "null", name |-> ""]
Source(n) == [kind |-> "dict", name |-> n]

\* The candidate items the news source can return.
Candidates ==
    { [title |-> "A", url |-> "https://x/1", source |-> Source("Wire")],
      [title |-> "B", url |-> "https://x/2", source |-> SourceMissing],
      [title |-> NULL, url |-> "https://x/1", source |-> Source("Wire")],
      [title |-> "A", url |-> "", source |-> Source("Wire")],
      [title |-> "A", url |-> "https://x/2", source |-> SourceNull],
      [title |-> "B", url |-> "https://x/1", source |-> Source(NULL)] }

\* requests.get(...), raise_for_status(), response.json(): what came back, and
\* for a result list its length; the loop reads its items one by one.
Responses ==
    { [kind |-> k, n |-> 0] : k \in {"transport", "http_error", "not_ok"} }
    \cup { [kind |-> "ok", n |-> n] : n \in 0..MaxItems }

Ev(i, e) == [i |-> i, ev |-> e]

HasUrl(table, url) == \E k \in 1..Len(table) : table[k].url = url

\* db.session.add(article); db.session.commit() on table articles: url is
\* unique, and the engine itself may fail (db_ok = FALSE).
CommitArticle(table, row, db_ok) ==
    IF ~db_ok \/ HasUrl(table, row.url) THEN Raised
    ELSE Returned(Append(table, row))

\* A duplicate check that finds nothing.
IsDuplicate_Never(table, url) == FALSE

\* The duplicate check of the loop: Article.query.filter_by(url=url).first()
IsDuplicate(table, url) == HasUrl(table, url)

\* A bad-data check that looks at the title alone.
IsBadItem_TitleOnly(item) == Falsy(item.title)

\* The bad-data check of the loop: not title or not url
IsBadItem(item) == Falsy(item.title) \/ Falsy(item.url)

\* Article(title=..., source=..., url=..., category=topic, summary=...,
\* sentiment=..., embedding=...): a row of table articles.
Article(title, source, url, category, summary, sentiment, embedding) ==
    [url |-> url, title |-> title, source |-> source, category |-> category,
     summary |-> summary, sentiment |-> sentiment, embedding |-> embedding]

NoRow == Article("", "", "", "", "", "", EmptyEmbedding)

\* What the persistence block leaves: the table, the events in call order,
\* the decision taken, whether one more article was counted, and the text
\* extract_full_text had returned.
Pass(table, log, dec, added, full_text) ==
    [articles |-> table, log |-> log, dec |-> dec, added |-> added, text |-> full_text]

\* The persistence block without its except clause: a failed commit escapes.
SaveArticle_NoExcept(table, i, row, source, db_ok, log, full_text) ==
    IF source = NULL
    THEN Pass(table, log, "raised", 0, full_text)
    ELSE LET c == CommitArticle(table, row, db_ok)
         IN  IF c.raised
             THEN Pass(table, log \o <<Ev(i, "add"), Ev(i, "commit")>>, "raised", 0, full_text)
             ELSE Pass(c.value, log \o <<Ev(i, "add"), Ev(i, "commit")>>, "saved", 1,
                       full_text)

\* The persistence block counting the article before the commit.
SaveArticle_CountsFirst(table, i, row, source, db_ok, log, full_text) ==
    IF source = NULL
    THEN Pass(table, log \o <<Ev(i, "rollback")>>, "db_error", 0, full_text)
    ELSE LET c == CommitArticle(table, row, db_ok)
         IN  IF c.raised
             THEN Pass(table, log \o <<Ev(i, "add"), Ev(i, "commit"), Ev(i, "rollback")>>,
                       "db_error", 1, full_text)
             ELSE Pass(c.value, log \o <<Ev(i, "add"), Ev(i, "commit")>>, "saved", 1,
                       full_text)

\* The persistence block, try/except of the loop body.
SaveArticle(table, i, row, source, db_ok, log, full_text) ==
    IF source = NULL
    THEN Pass(table, log \o <<Ev(i, "rollback")>>, "db_error", 0, full_text) \* source[:200]
    ELSE LET c == CommitArticle(table, row, db_ok)
         IN  IF c.raised
             THEN Pass(table, log \o <<Ev(i, "add"), Ev(i, "commit"), Ev(i, "rollback")>>,
                       "db_error", 0, full_text)
             ELSE Pass(c.value, log \o <<Ev(i, "add"), Ev(i, "commit")>>, "saved", 1,
                       full_text)

\* item.get("source", {}).get("name", "")
SourceName(item) == IF item.source.kind = "missing" THEN "" ELSE item.source.name

\* The head of the loop body: the fields are read (a null source raises,
\* None.get), the item is skipped when it has no title or no URL, or when its
\* URL is stored; otherwise it goes on to the extraction.
CheckItem(table, item) ==
    IF item.source.kind = "null" THEN "raised"
    ELSE IF IsBadItem(item) THEN "bad"
    ELSE IF IsDuplicate(table, item.url) THEN "duplicate"
    ELSE "checked"

\* not full_text or len(full_text) < 200 or full_text.startswith("[Extractor]")
IsNoText(full_text) == full_text.none \/ full_text.len < 200 \/ full_text.extractor

Topics == {"technology"}

\* No invocation yet.
FetchIdle ==
    [pc |-> "idle", topic |-> "", n |-> 0, items |-> <<>>, i |-> 0, new_articles |-> 0,
     log |-> <<>>, dec |-> <<>>, texts |-> <<>>, ret |-> 0, base |-> 0, prev |-> <<>>,
     resp |-> "", row |-> NoRow, source |-> "", others |-> 0]

\* The request without its try/except: a transport failure or a non-success
\* HTTP status escapes.
AfterRequest_NoExcept(resp) ==
    CASE resp.kind \in {"transport", "http_error"} -> "raised"
      [] resp.kind = "not_ok" -> "returned"
      [] OTHER -> "loop"

\* Where the request leaves the call: requests.get or raise_for_status or
\* response.json() raising is caught and 0 returned, a body whose status is
\* not "ok" returns 0, anything else enters the loop.
AfterRequest(resp) ==
    CASE resp.kind \in {"transport", "http_error"} -> "returned"
      [] resp.kind = "not_ok" -> "returned"
      [] OTHER -> "loop"

\* fetch_from_newsapi(topic), up to the request: the key check; requests.get
\* is sent. prev keeps the result list of the call that has just returned 1
\* for a single candidate (to tell an immediate repeat of that call).
FetchBegin ==
    /\ fetch.pc \in {"idle", "returned", "raised"}
    /\ \E topic \in Topics :
         LET start == [FetchIdle EXCEPT !.topic = topic, !.base = Len(articles)]
         IN  fetch' =
               IF Falsy(env.NEWS_API_KEY)
               THEN [start EXCEPT !.pc = "raised"]
               ELSE [start EXCEPT !.pc = "request",
                                  !.prev = IF /\ fetch.pc = "returned"
                                              /\ fetch.ret = 1
                                              /\ fetch.topic = topic
                                              /\ Len(fetch.items) = 1
                                           THEN fetch.items ELSE <<>>]
    /\ UNCHANGED <<env, peer, articles, chat_history, clock, answer, user_articles, reqs>>

\* The request comes back, or fails, after its wait: 0 is returned or the
\* loop is entered.
FetchResponse ==
    /\ fetch.pc = "request"
    /\ \E resp \in Responses :
         fetch' = IF AfterRequest(resp) # "loop"
                  THEN [fetch EXCEPT !.pc = AfterRequest(resp), !.ret = 0,
                                     !.resp = resp.kind, !.prev = <<>>]
                  ELSE [fetch EXCEPT !.pc = "loop", !.n = resp.n, !.i = 1,
                                     !.resp = resp.kind]
    /\ UNCHANGED <<env, peer, articles, chat_history, clock, answer, user_articles, reqs>>

\* The head of the loop body over the next item of the result list: the
\* checks, the second of which reads the table. An item rejected is done with.
FetchCheck ==
    /\ fetch.pc = "loop"
    /\ fetch.i <= fetch.n
    /\ \E item \in Candidates :
         LET dec == CheckItem(articles, item)
         IN  fetch' = IF dec = "checked"
                      THEN [fetch EXCEPT
                              !.pc = "extract",
                              !.items = Append(@, item),
                              !.source = SourceName(item),
                              !.row = [NoRow EXCEPT !.title = item.title,
                                                    !.source = SourceName(item),
                                                    !.url = item.url,
                                                    !.category = fetch.topic]]
                      ELSE [fetch EXCEPT
                              !.pc = IF dec = "raised" THEN "raised" ELSE "loop",
                              !.items = Append(@, item),
                              !.i = @ + 1,
                              !.dec = Append(@, dec),
                              !.texts = Append(@, NoText)]
    /\ UNCHANGED <<env, peer, articles, chat_history, clock, answer, user_articles, reqs>>

\* extract_full_text(url) returns, after the download of the page; the item
\* is skipped when the text is not usable.
FetchExtract ==
    /\ fetch.pc = "extract"
    /\ \E page \in Pages :
         LET full_text == ExtractFullText(page)
         IN  fetch' = IF IsNoText(full_text)
                      THEN [fetch EXCEPT !.pc = "loop",
                                         !.i = @ + 1,
                                         !.log = Append(@, Ev(fetch.i, "extract")),
                                         !.dec = Append(@, "no_text"),
                                         !.texts = Append(@, full_text),
                                         !.row = NoRow,
                                         !.source = ""]
                      ELSE [fetch EXCEPT !.pc = "summarize",
                                         !.log = Append(@, Ev(fetch.i, "extract")),
                                         !.texts = Append(@, full_text)]
    /\ UNCHANGED <<env, peer, articles, chat_history, clock, answer, user_articles, reqs>>

\* summarize_article(title, full_text) returns or raises, after its provider
\* call if it makes one.
FetchSummarize ==
    /\ fetch.pc = "summarize"
    /\ \E reply \in SummaryReplies :
         LET s == SummarizeArticle(env.OPENAI_API_KEY, reply)
         IN  fetch' = IF s.raised
                      THEN [fetch EXCEPT !.pc = "raised",
                                         !.i = @ + 1,
                                         !.log = Append(@, Ev(fetch.i, "summarize")),
                                         !.dec = Append(@, "raised"),
                                         !.row = NoRow,
                                         !.source = ""]
                      ELSE [fetch EXCEPT !.pc = "sentiment",
                                         !.log = Append(@, Ev(fetch.i, "summarize")),
                                         !.row.summary = s.value]
    /\ UNCHANGED <<env, peer, articles, chat_history, clock, answer, user_articles, reqs>>

\* analyze_sentiment(summary) returns, after its provider call.
FetchSentiment ==
    /\ fetch.pc = "sentiment"
    /\ \E reply \in SentimentReplies :
         fetch' = [fetch EXCEPT !.pc = "embed",
                                !.log = Append(@, Ev(fetch.i, "sentiment")),
                                !.row.sentiment = AnalyzeSentiment(reply)]
    /\ UNCHANGED <<env, peer, articles, chat_history, clock, answer, user_articles, reqs>>

\* generate_embedding of the title and the summary.
FetchEmbed ==
    /\ fetch.pc = "embed"
    /\ fetch' = [fetch EXCEPT
                   !.pc = "save",
                   !.log = Append(@, Ev(fetch.i, "embed")),
                   !.row.embedding =
                      GenerateEmbedding(<<Strip(fetch.row.title), Strip(fetch.row.summary)>>)]
    /\ UNCHANGED <<env, peer, articles, chat_history, clock, answer, user_articles, reqs>>

\* The save of the item enriched, against the table as it is now.
FetchSave ==
    /\ fetch.pc = "save"
    /\ \E db_ok \in BOOLEAN :
         LET p == SaveArticle(articles, fetch.i, fetch.row, fetch.source, db_ok, <<>>,
                              fetch.texts[fetch.i])
         IN  /\ articles' = p.articles
             /\ fetch' = [fetch EXCEPT
                            !.pc = IF p.dec = "raised" THEN "raised" ELSE "loop",
                            !.i = @ + 1,
                            !.new_articles = @ + p.added,
                            !.log = @ \o p.log,
                            !.dec = Append(@, p.dec),
                            !.row = NoRow,
                            !.source = ""]
    /\ UNCHANGED <<env, peer, chat_history, clock, answer, user_articles, reqs>>

\* The rows another invocation of fetch_from_newsapi (a second /refresh_process
\* request) can commit: a candidate enriched, its URL not yet stored.
ConcurrentRows(table) ==
    { Article(item.title, SourceName(item), item.url, topic, "- fact", "neutral",
              GenerateEmbedding(<<Strip(item.title), "- fact">>)) :
        item \in { c \in Candidates : /\ ~Falsy(c.title) /\ ~Falsy(c.url)
                                      /\ c.source.kind # "null"
                                      /\ SourceName(c) # NULL
                                      /\ ~HasUrl(table, c.url) },
        topic \in Topics }

\* The commit of another invocation; others counts those since this
\* invocation began.
ConcurrentCommit ==
    /\ \E row \in ConcurrentRows(articles) :
         articles' = Append(articles, row)
    /\ fetch' = [fetch EXCEPT !.others = @ + 1]
    /\ UNCHANGED <<env, peer, chat_history, clock, answer, user_articles, reqs>>

\* The list is exhausted: return new_articles.
FetchReturn ==
    /\ fetch.pc = "loop"
    /\ fetch.i > fetch.n
    /\ fetch' = [fetch EXCEPT !.pc = "returned", !.ret = fetch.new_articles]
    /\ UNCHANGED <<env, peer, articles, chat_history, clock, answer, user_articles, reqs>>

\* ---------------------------------------------------------------- retriever
\* list.sort as CPython runs it on a list of fewer than 64 entries (one run
\* found by count_run, the rest placed by binarysort), the entries being
\* pairs <<sim, id>> compared by sim alone. Every comparison with nan is False.
Lt(a, b) == ~a.nan /\ ~b.nan /\ a.val < b.val

Reverse(s) == [k \in 1..Len(s) |-> s[Len(s) + 1 - k]]

\* count_run: the length of the run the list starts with, and whether it is
\* strictly descending (it is then reversed in place).
CountRun(s) ==
    LET descending == Lt(s[2][1], s[1][1])
        InRun(j) == IF descending THEN Lt(s[j][1], s[j - 1][1])
                    ELSE ~Lt(s[j][1], s[j - 1][1])
        n == CHOOSE m \in 2..Len(s) :
                /\ \A j \in 3..m : InRun(j)
                /\ m = Len(s) \/ ~InRun(m + 1)
    IN  [n |-> n, descending |-> descending]

\* binarysort: where the pivot goes among s[l..r-1].
RECURSIVE BinaryPosition(_, _, _, _)
BinaryPosition(s, pivot, l, r) ==
    IF l >= r THEN l
    ELSE LET p == l + ((r - l) \div 2)
         IN  IF Lt(pivot[1], s[p][1]) THEN BinaryPosition(s, pivot, l, p)
             ELSE BinaryPosition(s, pivot, p + 1, r)

\* binarysort: s[1..start-1] is sorted, the entries from start on are inserted.
RECURSIVE BinarySort(_, _)
BinarySort(s, start) ==
    IF start > Len(s) THEN s
    ELSE LET pivot == s[start]
             l == BinaryPosition(s, pivot, 1, start)
         IN  BinarySort(SubSeq(s, 1, l - 1) \o <<pivot>> \o SubSeq(s, l, start - 1)
                           \o SubSeq(s, start + 1, Len(s)),
                        start + 1)

\* The ascending sort of list.sort.
ListSort(s) ==
    IF Len(s) < 2 THEN s
    ELSE LET run == CountRun(s)
             s1 == IF run.descending
                   THEN Reverse(SubSeq(s, 1, run.n)) \o SubSeq(s, run.n + 1, Len(s))
                   ELSE s
         IN  BinarySort(s1, run.n + 1)

\* scored.sort(key=lambda x: x[0], reverse=True): the list is reversed,
\* sorted ascending and reversed again.
SortDesc(scored) == Reverse(ListSort(Reverse(scored)))

\* The loop that scores every article that has an embedding, in table order.
RECURSIVE Scored(_, _, _)
Scored(query_emb, table, k) ==
    IF k > Len(table) THEN <<>>
    ELSE IF table[k].embedding.kind \in {"none", "empty"}    \* NULL; not art.embedding
         THEN Scored(query_emb, table, k + 1)
         ELSE <<<<ComputeSimilarity(query_emb, table[k].embedding), k>>>>
              \o Scored(query_emb, table, k + 1)

\* scored[:top_k]
SliceTo(s, top_k) ==
    IF top_k >= 0 THEN SubSeq(s, 1, Min(top_k, Len(s)))
    ELSE SubSeq(s, 1, Max(0, Len(s) + top_k))

\* [art for sim, art in ... if sim > 0], keeping the pairs.
Positive(s) == SelectSeq(s, LAMBDA p : p[1].val > 0)

\* retrieve_relevant_articles without the sort: the scored list is truncated
\* and filtered in table order.
RetrieveRelevantArticles_Unsorted(query, top_k, table) ==
    LET query_emb == GenerateEmbedding(<<query>>)
    IN  IF query_emb = EmptyEmbedding THEN <<>>
        ELSE Positive(SliceTo(Scored(query_emb, table, 1), top_k))

\* retrieve_relevant_articles(query, top_k): the <<similarity, article id>>
\* pairs of the articles returned, in the order returned.
RetrieveRelevantArticles(query, top_k, table) ==
    LET query_emb == GenerateEmbedding(<<query>>)
    IN  IF query_emb = EmptyEmbedding THEN <<>>
        ELSE Positive(SliceTo(SortDesc(Scored(query_emb, table, 1)), top_k))

\* compute_similarity(vec1, vec2), called on its own. An argument is None, a
\* text that is no JSON, or the JSON text of a vector: the sentinel "[]",
\* all-zero vectors, and vectors of one and two dimensions with whole norms.
NoneEmbedding == [kind |-> "none", vec |-> <<>>]
InvalidJson == [kind |-> "text", vec |-> <<>>]
EmptyText == [kind |-> "empty", vec |-> <<>>]
SimVectors ==
    { <<>>, <<0>>, <<2>>, <<-1>>, <<0, 0>>, <<3, 4>>, <<4, -3>>, <<-3, -4>>, <<0, 5>>,
      <<1, 0>> }
SimInputs == {NoneEmbedding, InvalidJson, EmptyText} \cup { JsonDumps(v) : v \in SimVectors }

Similarity ==
    /\ \E vec1 \in SimInputs, vec2 \in SimInputs :
         answer' = [op |-> "similarity", vec1 |-> vec1, vec2 |-> vec2,
                    result |-> ComputeSimilarity(vec1, vec2)]
    /\ UNCHANGED <<env, peer, articles, fetch, chat_history, clock, user_articles, reqs>>

\* ---------------------------------------------------------- answer generator
\* str.lower() of the provider names of the model.
Lower(s) ==
    CASE s = "GEMINI" -> "gemini"
      [] s = "Gemini" -> "gemini"
      [] s = "OpenAI" -> "openai"
      [] OTHER -> s

\* What an adapter call leaves: the text returned and whether the provider's
\* API was called.
Reply(adapter, text, called) == [adapter |-> adapter, text |-> text, called |-> called]

\* _call_openai(system_prompt, user_prompt)
CallOpenai(key, reply) ==
    IF Falsy(key) THEN Reply("openai", "OpenAI API key is not configured.", FALSE)
    ELSE IF reply.raised
    THEN Reply("openai", "Sorry, something went wrong with OpenAI right now.", TRUE)
    ELSE Reply("openai", Strip(reply.content), TRUE)

\* _call_gemini(system_prompt, user_prompt)
CallGemini(key, reply) ==
    IF Falsy(key) THEN Reply("gemini", "Gemini API key is not configured.", FALSE)
    ELSE IF reply.raised
    THEN Reply("gemini", "Sorry, something went wrong with Gemini right now.", TRUE)
    ELSE Reply("gemini", Strip(reply.content), TRUE)

\* _call_llm without the lower-casing of the provider name.
CallLlm_CaseSensitive(provider, keys, reply) ==
    LET p == IF Falsy(provider) THEN "openai" ELSE provider
    IN  IF p = "gemini" THEN CallGemini(keys.GEMINI_API_KEY, reply)
        ELSE CallOpenai(keys.OPENAI_API_KEY, reply)

\* _call_llm(provider, system_prompt, user_prompt)
CallLlm(provider, keys, reply) ==
    LET p == Lower(IF Falsy(provider) THEN "openai" ELSE provider)
    IN  IF p = "gemini" THEN CallGemini(keys.GEMINI_API_KEY, reply)
        ELSE CallOpenai(keys.OPENAI_API_KEY, reply)

\* ChatHistory(role=..., message=..., timestamp=..., user_id=..., article_id=None)
ChatHistory(role, message, timestamp, user_id) ==
    [role |-> role, message |-> message, timestamp |-> timestamp, user_id |-> user_id,
     article_id |-> NULL]

\* What a commit leaves: the table, and whether it raised.
Committed(table) == [raised |-> FALSE, table |-> table]
RolledBack(table) == [raised |-> TRUE, table |-> table]

\* A commit after each add: the first row is in when the second fails.
CommitChat_PerAdd(table, pending, db_ok) ==
    IF db_ok THEN Committed(table \o pending)
    ELSE RolledBack(table \o SubSeq(pending, 1, Len(pending) - 1))

\* db.session.commit() with the rows added to the session: one transaction.
CommitChat(table, pending, db_ok) ==
    IF db_ok THEN Committed(table \o pending) ELSE RolledBack(table)

Questions == {"q1", "q2", " "}
ChatQuestions == {"q1"}
Providers == {NULL, "openai", "gemini", "GEMINI", "bing"}
ChatReplies == {LlmError, LlmReply("answer")}
Users == {1}

\* retrieve_relevant_articles(query, top_k), called on its own.
Retrieve ==
    /\ \E query \in Questions, top_k \in 0..MaxTopK :
         answer' = [op |-> "retrieve", question |-> query, top_k |-> top_k,
                    relevant |-> RetrieveRelevantArticles(query, top_k, articles)]
    /\ UNCHANGED <<env, peer, articles, fetch, chat_history, clock, user_articles, reqs>>

\* answer_question(user, question, provider, top_k), up to the provider call:
\* the retrieval, which reads table articles, and the choice of the prompt.
AnswerBegin ==
    /\ answer.op = "none" \/ (answer.op = "answer" /\ answer.pc = "done")
    /\ clock < MaxExchanges
    /\ \E user \in Users, question \in ChatQuestions, provider \in Providers :
         LET relevant == RetrieveRelevantArticles(question, DefaultTopK, articles)
         IN  answer' = [op |-> "answer", pc |-> "wait", question |-> question,
                        top_k |-> DefaultTopK, relevant |-> relevant,
                        provider |-> provider, grounded |-> relevant # <<>>,
                        user |-> user, reply |-> LlmError, adapter |-> "",
                        called |-> FALSE, text |-> "", now |-> 0, raised |-> FALSE,
                        before |-> 0, after |-> 0]
    /\ UNCHANGED <<env, peer, articles, fetch, chat_history, clock, user_articles, reqs>>

\* _call_llm returns, after the wait for the provider; now = datetime.utcnow().
AnswerReply ==
    /\ answer.op = "answer" /\ answer.pc = "wait"
    /\ clock < MaxExchanges
    /\ \E reply \in ChatReplies :
         LET r == CallLlm(answer.provider, env, reply)
         IN  answer' = [answer EXCEPT !.pc = "commit", !.reply = reply,
                                      !.adapter = r.adapter, !.called = r.called,
                                      !.text = r.text, !.now = clock + 1]
    /\ clock' = clock + 1
    /\ UNCHANGED <<env, peer, articles, fetch, chat_history, user_articles, reqs>>

\* The two rows are added to the session and committed.
AnswerCommit ==
    /\ answer.op = "answer" /\ answer.pc = "commit"
    /\ \E db_ok \in BOOLEAN :
         LET user_msg == ChatHistory("user", <<answer.provider, answer.question>>,
                                     answer.now, answer.user)
             bot_msg == ChatHistory("bot", answer.text, answer.now, answer.user)
             c == CommitChat(chat_history, <<user_msg, bot_msg>>, db_ok)
         IN  /\ chat_history' = c.table
             /\ answer' = [answer EXCEPT !.pc = "done", !.raised = c.raised,
                                          !.before = Len(chat_history),
                                          !.after = Len(c.table)]
    /\ UNCHANGED <<env, peer, articles, fetch, clock, user_articles, reqs>>

\* An ingestion (a /refresh_process request) commits an article.
IngestDuringAnswer ==
    /\ \E row \in ConcurrentRows(articles) : articles' = Append(articles, row)
    /\ UNCHANGED <<env, peer, fetch, chat_history, clock, answer, user_articles, reqs>>

\* No other invocation of answer_question between its timestamp and its commit.
PeerIdle ==
    [pc |-> "idle", provider |-> NULL, question |-> "", user |-> 0, text |-> "",
     now |-> 0]

\* The other invocation gets its provider's text and takes its timestamp:
\* now = datetime.utcnow().
PeerStamp ==
    /\ peer.pc = "idle"
    /\ clock < MaxExchanges
    /\ \E user \in Users, question \in ChatQuestions, provider \in Providers,
          reply \in ChatReplies :
         peer' = [pc |-> "stamped", provider |-> provider, question |-> question,
                  user |-> user, text |-> CallLlm(provider, env, reply).text,
                  now |-> clock + 1]
    /\ clock' = clock + 1
    /\ UNCHANGED <<env, articles, fetch, chat_history, answer, user_articles, reqs>>

\* The other invocation adds its two rows and commits.
PeerCommit ==
    /\ peer.pc = "stamped"
    /\ \E db_ok \in BOOLEAN :
         LET user_msg == ChatHistory("user", <<peer.provider, peer.question>>, peer.now,
                                     peer.user)
             bot_msg == ChatHistory("bot", peer.text, peer.now, peer.user)
         IN  chat_history' = CommitChat(chat_history, <<user_msg, bot_msg>>, db_ok).table
    /\ peer' = PeerIdle
    /\ UNCHANGED <<env, articles, fetch, clock, answer, user_articles, reqs>>

\* ------------------------------------------------------ article interactions
\* json.loads(text): the list, or an exception.
JsonLoads(text) == IF text.kind = "json" THEN Returned(text.vec) ELSE Raised

\* request.form.get("rating"): absent, or a string as its characters.
NoField == [present |-> FALSE, chars |-> <<>>]
Field(cs) == [present |-> TRUE, chars |-> cs]

\* The decimal digits int() knows: the ASCII digits and the other Unicode
\* decimal digits (Unicode 14, a row per script, the digits 0 to 9 in order).
\* A character that cannot be written here stands as its code point.
DigitRows ==
    << <<"0", "1", "2", "3", "4", "5", "6", "7", "8", "9">>,
       <<"U+0660", "U+0661", "U+0662", "U+0663", "U+0664", "U+0665", "U+0666", "U+0667", "U+0668", "U+0669">>,
       <<"U+06F0", "U+06F1", "U+06F2", "U+06F3", "U+06F4", "U+06F5", "U+06F6", "U+06F7", "U+06F8", "U+06F9">>,
       <<"U+07C0", "U+07C1", "U+07C2", "U+07C3", "U+07C4", "U+07C5", "U+07C6", "U+07C7", "U+07C8", "U+07C9">>,
       <<"U+0966", "U+0967", "U+0968", "U+0969", "U+096A", "U+096B", "U+096C", "U+096D", "U+096E", "U+096F">>,
       <<"U+09E6", "U+09E7", "U+09E8", "U+09E9", "U+09EA", "U+09EB", "U+09EC", "U+09ED", "U+09EE", "U+09EF">>,
       <<"U+0A66", "U+0A67", "U+0A68", "U+0A69", "U+0A6A", "U+0A6B", "U+0A6C", "U+0A6D", "U+0A6E", "U+0A6F">>,
       <<"U+0AE6", "U+0AE7", "U+0AE8", "U+0AE9", "U+0AEA", "U+0AEB", "U+0AEC", "U+0AED", "U+0AEE", "U+0AEF">>,
       <<"U+0B66", "U+0B67", "U+0B68", "U+0B69", "U+0B6A", "U+0B6B", "U+0B6C", "U+0B6D", "U+0B6E", "U+0B6F">>,
       <<"U+0BE6", "U+0BE7", "U+0BE8", "U+0BE9", "U+0BEA", "U+0BEB", "U+0BEC", "U+0BED", "U+0BEE", "U+0BEF">>,
       <<"U+0C66", "U+0C67", "U+0C68", "U+0C69", "U+0C6A", "U+0C6B", "U+0C6C", "U+0C6D", "U+0C6E", "U+0C6F">>,
       <<"U+0CE6", "U+0CE7", "U+0CE8", "U+0CE9", "U+0CEA", "U+0CEB", "U+0CEC", "U+0CED", "U+0CEE", "U+0CEF">>,
       <<"U+0D66", "U+0D67", "U+0D68", "U+0D69", "U+0D6A", "U+0D6B", "U+0D6C", "U+0D6D", "U+0D6E", "U+0D6F">>,
       <<"U+0DE6", "U+0DE7", "U+0DE8", "U+0DE9", "U+0DEA", "U+0DEB", "U+0DEC", "U+0DED", "U+0DEE", "U+0DEF">>,
       <<"U+0E50", "U+0E51", "U+0E52", "U+0E53", "U+0E54", "U+0E55", "U+0E56", "U+0E57", "U+0E58", "U+0E59">>,
       <<"U+0ED0", "U+0ED1", "U+0ED2", "U+0ED3", "U+0ED4", "U+0ED5", "U+0ED6", "U+0ED7", "U+0ED8", "U+0ED9">>,
       <<"U+0F20", "U+0F21", "U+0F22", "U+0F23", "U+0F24", "U+0F25", "U+0F26", "U+0F27", "U+0F28", "U+0F29">>,
       <<"U+1040", "U+1041", "U+1042", "U+1043", "U+1044", "U+1045", "U+1046", "U+1047", "U+1048", "U+1049">>,
       <<"U+1090", "U+1091", "U+1092", "U+1093", "U+1094", "U+1095", "U+1096", "U+1097", "U+1098", "U+1099">>,
       <<"U+17E0", "U+17E1", "U+17E2", "U+17E3", "U+17E4", "U+17E5", "U+17E6", "U+17E7", "U+17E8", "U+17E9">>,
       <<"U+1810", "U+1811", "U+1812", "U+1813", "U+1814", "U+1815", "U+1816", "U+1817", "U+1818", "U+1819">>,
       <<"U+1946", "U+1947", "U+1948", "U+1949", "U+194A", "U+194B", "U+194C", "U+194D", "U+194E", "U+194F">>,
       <<"U+19D0", "U+19D1", "U+19D2", "U+19D3", "U+19D4", "U+19D5", "U+19D6", "U+19D7", "U+19D8", "U+19D9">>,
       <<"U+1A80", "U+1A81", "U+1A82", "U+1A83", "U+1A84", "U+1A85", "U+1A86", "U+1A87", "U+1A88", "U+1A89">>,
       <<"U+1A90", "U+1A91", "U+1A92", "U+1A93", "U+1A94", "U+1A95", "U+1A96", "U+1A97", "U+1A98", "U+1A99">>,
       <<"U+1B50", "U+1B51", "U+1B52", "U+1B53", "U+1B54", "U+1B55", "U+1B56", "U+1B57", "U+1B58", "U+1B59">>,
       <<"U+1BB0", "U+1BB1", "U+1BB2", "U+1BB3", "U+1BB4", "U+1BB5", "U+1BB6", "U+1BB7", "U+1BB8", "U+1BB9">>,
       <<"U+1C40", "U+1C41", "U+1C42", "U+1C43", "U+1C44", "U+1C45", "U+1C46", "U+1C47", "U+1C48", "U+1C49">>,
       <<"U+1C50", "U+1C51", "U+1C52", "U+1C53", "U+1C54", "U+1C55", "U+1C56", "U+1C57", "U+1C58", "U+1C59">>,
       <<"U+A620", "U+A621", "U+A622", "U+A623", "U+A624", "U+A625", "U+A626", "U+A627", "U+A628", "U+A629">>,
       <<"U+A8D0", "U+A8D1", "U+A8D2", "U+A8D3", "U+A8D4", "U+A8D5", "U+A8D6", "U+A8D7", "U+A8D8", "U+A8D9">>,
       <<"U+A900", "U+A901", "U+A902", "U+A903", "U+A904", "U+A905", "U+A906", "U+A907", "U+A908", "U+A909">>,
       <<"U+A9D0", "U+A9D1", "U+A9D2", "U+A9D3", "U+A9D4", "U+A9D5", "U+A9D6", "U+A9D7", "U+A9D8", "U+A9D9">>,
       <<"U+A9F0", "U+A9F1", "U+A9F2", "U+A9F3", "U+A9F4", "U+A9F5", "U+A9F6", "U+A9F7", "U+A9F8", "U+A9F9">>,
       <<"U+AA50", "U+AA51", "U+AA52", "U+AA53", "U+AA54", "U+AA55", "U+AA56", "U+AA57", "U+AA58", "U+AA59">>,
       <<"U+ABF0", "U+ABF1", "U+ABF2", "U+ABF3", "U+ABF4", "U+ABF5", "U+ABF6", "U+ABF7", "U+ABF8", "U+ABF9">>,
       <<"U+FF10", "U+FF11", "U+FF12", "U+FF13", "U+FF14", "U+FF15", "U+FF16", "U+FF17", "U+FF18", "U+FF19">>,
       <<"U+104A0", "U+104A1", "U+104A2", "U+104A3", "U+104A4", "U+104A5", "U+104A6", "U+104A7", "U+104A8", "U+104A9">>,
       <<"U+10D30", "U+10D31", "U+10D32", "U+10D33", "U+10D34", "U+10D35", "U+10D36", "U+10D37", "U+10D38", "U+10D39">>,
       <<"U+11066", "U+11067", "U+11068", "U+11069", "U+1106A", "U+1106B", "U+1106C", "U+1106D", "U+1106E", "U+1106F">>,
       <<"U+110F0", "U+110F1", "U+110F2", "U+110F3", "U+110F4", "U+110F5", "U+110F6", "U+110F7", "U+110F8", "U+110F9">>,
       <<"U+11136", "U+11137", "U+11138", "U+11139", "U+1113A", "U+1113B", "U+1113C", "U+1113D", "U+1113E", "U+1113F">>,
       <<"U+111D0", "U+111D1", "U+111D2", "U+111D3", "U+111D4", "U+111D5", "U+111D6", "U+111D7", "U+111D8", "U+111D9">>,
       <<"U+112F0", "U+112F1", "U+112F2", "U+112F3", "U+112F4", "U+112F5", "U+112F6", "U+112F7", "U+112F8", "U+112F9">>,
       <<"U+11450", "U+11451", "U+11452", "U+11453", "U+11454", "U+11455", "U+11456", "U+11457", "U+11458", "U+11459">>,
       <<"U+114D0", "U+114D1", "U+114D2", "U+114D3", "U+114D4", "U+114D5", "U+114D6", "U+114D7", "U+114D8", "U+114D9">>,
       <<"U+11650", "U+11651", "U+11652", "U+11653", "U+11654", "U+11655", "U+11656", "U+11657", "U+11658", "U+11659">>,
       <<"U+116C0", "U+116C1", "U+116C2", "U+116C3", "U+116C4", "U+116C5", "U+116C6", "U+116C7", "U+116C8", "U+116C9">>,
       <<"U+11730", "U+11731", "U+11732", "U+11733", "U+11734", "U+11735", "U+11736", "U+11737", "U+11738", "U+11739">>,
       <<"U+118E0", "U+118E1", "U+118E2", "U+118E3", "U+118E4", "U+118E5", "U+118E6", "U+118E7", "U+118E8", "U+118E9">>,
       <<"U+11950", "U+11951", "U+11952", "U+11953", "U+11954", "U+11955", "U+11956", "U+11957", "U+11958", "U+11959">>,
       <<"U+11C50", "U+11C51", "U+11C52", "U+11C53", "U+11C54", "U+11C55", "U+11C56", "U+11C57", "U+11C58", "U+11C59">>,
       <<"U+11D50", "U+11D51", "U+11D52", "U+11D53", "U+11D54", "U+11D55", "U+11D56", "U+11D57", "U+11D58", "U+11D59">>,
       <<"U+11DA0", "U+11DA1", "U+11DA2", "U+11DA3", "U+11DA4", "U+11DA5", "U+11DA6", "U+11DA7", "U+11DA8", "U+11DA9">>,
       <<"U+16A60", "U+16A61", "U+16A62", "U+16A63", "U+16A64", "U+16A65", "U+16A66", "U+16A67", "U+16A68", "U+16A69">>,
       <<"U+16AC0", "U+16AC1", "U+16AC2", "U+16AC3", "U+16AC4", "U+16AC5", "U+16AC6", "U+16AC7", "U+16AC8", "U+16AC9">>,
       <<"U+16B50", "U+16B51", "U+16B52", "U+16B53", "U+16B54", "U+16B55", "U+16B56", "U+16B57", "U+16B58", "U+16B59">>,
       <<"U+1D7CE", "U+1D7CF", "U+1D7D0", "U+1D7D1", "U+1D7D2", "U+1D7D3", "U+1D7D4", "U+1D7D5", "U+1D7D6", "U+1D7D7">>,
       <<"U+1D7D8", "U+1D7D9", "U+1D7DA", "U+1D7DB", "U+1D7DC", "U+1D7DD", "U+1D7DE", "U+1D7DF", "U+1D7E0", "U+1D7E1">>,
       <<"U+1D7E2", "U+1D7E3", "U+1D7E4", "U+1D7E5", "U+1D7E6", "U+1D7E7", "U+1D7E8", "U+1D7E9", "U+1D7EA", "U+1D7EB">>,
       <<"U+1D7EC", "U+1D7ED", "U+1D7EE", "U+1D7EF", "U+1D7F0", "U+1D7F1", "U+1D7F2", "U+1D7F3", "U+1D7F4", "U+1D7F5">>,
       <<"U+1D7F6", "U+1D7F7", "U+1D7F8", "U+1D7F9", "U+1D7FA", "U+1D7FB", "U+1D7FC", "U+1D7FD", "U+1D7FE", "U+1D7FF">>,
       <<"U+1E140", "U+1E141", "U+1E142", "U+1E143", "U+1E144", "U+1E145", "U+1E146", "U+1E147", "U+1E148", "U+1E149">>,
       <<"U+1E2F0", "U+1E2F1", "U+1E2F2", "U+1E2F3", "U+1E2F4", "U+1E2F5", "U+1E2F6", "U+1E2F7", "U+1E2F8", "U+1E2F9">>,
       <<"U+1E950", "U+1E951", "U+1E952", "U+1E953", "U+1E954", "U+1E955", "U+1E956", "U+1E957", "U+1E958", "U+1E959">>,
       <<"U+1FBF0", "U+1FBF1", "U+1FBF2", "U+1FBF3", "U+1FBF4", "U+1FBF5", "U+1FBF6", "U+1FBF7", "U+1FBF8", "U+1FBF9">> >>

\* The value of each decimal digit.
DigitValues ==
    [c \in UNION { Range(DigitRows[r]) : r \in 1..Len(DigitRows) } |->
        (CHOOSE d \in 1..10 : \E r \in 1..Len(DigitRows) : DigitRows[r][d] = c) - 1]

IsDigit(c) == c \in DOMAIN DigitValues
DigitValue(c) == DigitValues[c]

\* The value of the digits of cs, the underscores between them passed over.
RECURSIVE Decimal(_, _)
Decimal(cs, acc) ==
    IF cs = <<>> THEN acc
    ELSE IF Head(cs) = "_" THEN Decimal(Tail(cs), acc)
    ELSE Decimal(Tail(cs), 10 * acc + DigitValue(Head(cs)))

\* The whitespace int() passes over around the number: the ASCII whitespace
\* and the Unicode whitespace above U+007F (the separators U+001C to U+001F
\* are not passed over).
IsSpace(c) ==
    c \in {"\t", "\n", "U+000B", "\f", "\r", " ", "U+0085", "U+00A0", "U+1680",
           "U+2000", "U+2001", "U+2002", "U+2003", "U+2004", "U+2005", "U+2006",
           "U+2007", "U+2008", "U+2009", "U+200A", "U+2028", "U+2029", "U+202F",
           "U+205F", "U+3000"}

\* The characters of a string without its leading and trailing whitespace.
RECURSIVE StripChars(_)
StripChars(cs) ==
    IF cs = <<>> THEN <<>>
    ELSE IF IsSpace(Head(cs)) THEN StripChars(Tail(cs))
    ELSE IF IsSpace(cs[Len(cs)]) THEN StripChars(SubSeq(cs, 1, Len(cs) - 1))
    ELSE cs

\* Digits, with single underscores between digits only.
IsDigitString(b) ==
    /\ b # <<>>
    /\ \A k \in 1..Len(b) : IsDigit(b[k]) \/ b[k] = "_"
    /\ IsDigit(b[1]) /\ IsDigit(b[Len(b)])
    /\ \A k \in 1..(Len(b) - 1) : ~(b[k] = "_" /\ b[k + 1] = "_")

\* sys.get_int_max_str_digits(): int() refuses a string of more digits.
IntMaxStrDigits == 4300

\* int(value) for a form value: None raises; a string is stripped of the
\* whitespace around it and must then be an optional sign and a digit string
\* of at most IntMaxStrDigits digits.
ParseInt(value) ==
    IF ~value.present THEN Raised
    ELSE LET cs == StripChars(value.chars)
             signed == cs # <<>> /\ Head(cs) \in {"-", "+"}
             digits == IF signed THEN Tail(cs) ELSE cs
         IN  IF ~IsDigitString(digits) THEN Raised
             ELSE IF Len(SelectSeq(digits, IsDigit)) > IntMaxStrDigits THEN Raised
             ELSE IF signed /\ Head(cs) = "-" THEN Returned(0 - Decimal(digits, 0))
             ELSE Returned(Decimal(digits, 0))

\* A rating taken as it is.
ClampRating_None(rating) == rating

\* max(1, min(10, rating))
ClampRating(rating) == Max(1, Min(10, rating))

\* UserArticle(user_id=..., article_id=..., action=json.dumps([]), timestamp=...);
\* column rating is <<>> for NULL and <<n>> for the integer n.
UserArticle(user_id, article_id, timestamp) ==
    [user_id |-> user_id, article_id |-> article_id, action |-> JsonDumps(<<>>),
     rating |-> <<>>, notes |-> NULL, timestamp |-> timestamp]

\* UserArticle.query.filter_by(user_id=..., article_id=...).first(): the row
\* number, 0 for None.
FirstUserArticle(table, user_id, article_id) ==
    LET found == { k \in 1..Len(table) :
                     table[k].user_id = user_id /\ table[k].article_id = article_id }
    IN  IF found = {} THEN 0 ELSE CHOOSE k \in found : \A j \in found : k <= j

\* add_user_action(ua, action_name): the new value of ua.action.
AddUserAction(action, action_name) ==
    LET loaded == JsonLoads(action)
        actions == IF loaded.raised THEN <<>> ELSE loaded.value
    IN  IF action_name \in Range(actions) THEN JsonDumps(actions)
        ELSE JsonDumps(Append(actions, action_name))

Workers == {"w1", "w2"}
Kinds == {"view", "like", "rate", "notes", "open"}
RatingFields ==
    { NoField, Field(<<"a", "b", "c">>), Field(<<"1", "5">>), Field(<<"-", "3">>),
      Field(<<"7", "\r">>), Field(<<"U+00A0", "1", "_", "U+0660">>) }
ActionOf(kind) ==
    CASE kind = "view" -> "viewed" [] kind = "like" -> "liked" [] OTHER -> "linked"

\* The UserArticle object a session holds: the column values its query
\* loaded, or expired (by the session's own commit), to be read again at the
\* next access.
Expired == [expired |-> TRUE, action |-> JsonDumps(<<>>), rating |-> <<>>, notes |-> NULL]
Loaded(row) ==
    [expired |-> FALSE, action |-> row.action, rating |-> row.rating, notes |-> row.notes]

\* The value the UPDATE of a commit leaves in a column: the one assigned, if
\* the object was expired or the value differs from the one loaded (an
\* assignment of the loaded value is no change and is not written).
Written(obj, loaded, assigned, stored) ==
    IF obj.expired \/ assigned # loaded THEN assigned ELSE stored

ReqIdle ==
    [pc |-> "idle", kind |-> "", user |-> 0, article_id |-> 0, field |-> NoField,
     ua |-> 0, created |-> FALSE, status |-> "", rating |-> 0, stored |-> 0,
     obj |-> Expired, set |-> Expired, now |-> 0]

\* A request arrives at article_detail, like_article, rate_article, save_notes
\* or open_original: the article is looked up, 404 if there is none.
ReqStart(w) ==
    /\ reqs[w].pc = "idle"
    /\ clock < MaxClock
    /\ \E kind \in Kinds, user \in Users, article_id \in 1..(Len(articles) + 1),
          field \in RatingFields :
         /\ kind # "rate" => field = NoField
         /\ reqs' = [reqs EXCEPT ![w] =
                       [ReqIdle EXCEPT !.kind = kind, !.user = user,
                                       !.article_id = article_id, !.field = field,
                                       !.pc = IF article_id > Len(articles) THEN "done"
                                              ELSE "lookup",
                                       !.status = IF article_id > Len(articles) THEN "404"
                                                  ELSE ""]]
    /\ UNCHANGED <<env, peer, articles, fetch, chat_history, clock, answer, user_articles>>

\* get_or_create_user_article: the query, which loads the row it finds.
ReqLookup(w) ==
    /\ reqs[w].pc = "lookup"
    /\ LET ua == FirstUserArticle(user_articles, reqs[w].user, reqs[w].article_id)
       IN  reqs' = [reqs EXCEPT ![w].ua = ua,
                                ![w].obj = IF ua = 0 THEN Expired
                                           ELSE Loaded(user_articles[ua]),
                                ![w].pc = IF ua = 0 THEN "build" ELSE "assign"]
    /\ UNCHANGED <<env, peer, articles, fetch, chat_history, clock, answer, user_articles>>

\* get_or_create_user_article: ua is None, the new object is built, with
\* timestamp=datetime.utcnow().
ReqBuild(w) ==
    /\ reqs[w].pc = "build"
    /\ clock' = clock + 1
    /\ reqs' = [reqs EXCEPT ![w].now = clock + 1, ![w].pc = "create"]
    /\ UNCHANGED <<env, peer, articles, fetch, chat_history, answer, user_articles>>

\* get_or_create_user_article: the row is added and committed; the commit
\* expires the object. add_user_action then reads ua.action, which loads the
\* row again; rate_article and save_notes only assign.
ReqCreate(w) ==
    /\ reqs[w].pc = "create"
    /\ user_articles' = Append(user_articles,
                               UserArticle(reqs[w].user, reqs[w].article_id, reqs[w].now))
    /\ reqs' = [reqs EXCEPT ![w].ua = Len(user_articles) + 1, ![w].created = TRUE,
                             ![w].obj = Expired,
                             ![w].pc = IF reqs[w].kind \in {"rate", "notes"} THEN "assign"
                                       ELSE "reload"]
    /\ UNCHANGED <<env, peer, articles, fetch, chat_history, clock, answer>>

\* add_user_action: the read of ua.action on the expired object.
ReqReload(w) ==
    /\ reqs[w].pc = "reload"
    /\ reqs' = [reqs EXCEPT ![w].obj = Loaded(user_articles[reqs[w].ua]),
                             ![w].pc = "assign"]
    /\ UNCHANGED <<env, peer, articles, fetch, chat_history, clock, answer, user_articles>>

\* The route up to its commit: the value assigned to the object's column and
\* ua.timestamp = datetime.utcnow(), or for rate_article the rejection of a
\* rating that is no integer.
ReqAssign(w) ==
    /\ reqs[w].pc = "assign"
    /\ LET r == reqs[w]
           parsed == ParseInt(r.field)
       IN  IF r.kind = "rate" /\ parsed.raised
           THEN /\ reqs' = [reqs EXCEPT ![w].pc = "done", ![w].status = "rejected"]
                /\ UNCHANGED clock
           ELSE /\ clock' = clock + 1
                /\ reqs' = [reqs EXCEPT
                     ![w].pc = "commit",
                     ![w].now = clock + 1,
                     ![w].set =
                        CASE r.kind = "rate" ->
                               [r.obj EXCEPT !.rating = <<ClampRating(parsed.value)>>]
                          [] r.kind = "notes" -> [r.obj EXCEPT !.notes = Strip("n")]
                          [] OTHER ->
                               [r.obj EXCEPT !.action =
                                               AddUserAction(r.obj.action, ActionOf(r.kind))],
                     ![w].rating = IF r.kind = "rate" THEN parsed.value ELSE 0,
                     ![w].stored = IF r.kind = "rate" THEN ClampRating(parsed.value)
                                   ELSE 0]
    /\ UNCHANGED <<env, peer, articles, fetch, chat_history, answer, user_articles>>

\* db.session.commit() of the route: the UPDATE of the row of the object's id,
\* with the column assigned and the timestamp taken before.
ReqCommit(w) ==
    /\ reqs[w].pc = "commit"
    /\ LET r == reqs[w]
           row == user_articles[r.ua]
       IN  user_articles' =
             [user_articles EXCEPT ![r.ua] =
                CASE r.kind = "rate" ->
                       [row EXCEPT !.rating = Written(r.obj, r.obj.rating, r.set.rating, @),
                                   !.timestamp = r.now]
                  [] r.kind = "notes" ->
                       [row EXCEPT !.notes = Written(r.obj, r.obj.notes, r.set.notes, @),
                                   !.timestamp = r.now]
                  [] OTHER ->
                       [row EXCEPT !.action = Written(r.obj, r.obj.action, r.set.action, @),
                                   !.timestamp = r.now]]
    /\ reqs' = [reqs EXCEPT ![w].pc = "done", ![w].status = "ok"]
    /\ UNCHANGED <<env, peer, articles, fetch, chat_history, clock, answer>>

\* The response is sent; the worker takes the next request.
ReqEnd(w) ==
    /\ reqs[w].pc = "done"
    /\ reqs' = [reqs EXCEPT ![w] = ReqIdle]
    /\ UNCHANGED <<env, peer, articles, fetch, chat_history, clock, answer, user_articles>>

\* ------------------------------------------------------------ specification
NoAnswer == [op |-> "none"]

InitIngest ==
    /\ env \in [NEWS_API_KEY : {NULL, "nk"}, OPENAI_API_KEY : {"", "sk"},
                GEMINI_API_KEY : {"gk"}]
    /\ articles = <<>>
    /\ fetch = FetchIdle
    /\ chat_history = <<>>
    /\ clock = 0
    /\ answer = NoAnswer
    /\ user_articles = <<>>
    /\ reqs = <<>>
    /\ peer = PeerIdle

\* The tables an ingestion can leave: rows with distinct URLs, each enriched as
\* the loop body of fetch_from_newsapi enriches it.
UrlOf(k) ==
    CASE k = 1 -> "https://x/1" [] k = 2 -> "https://x/2" [] k = 3 -> "https://x/3"
      [] k = 4 -> "https://x/4" [] k = 5 -> "https://x/5" [] OTHER -> "https://x/6"

Enriched(k, title, summary) ==
    Article(title, "Wire", UrlOf(k), "technology", summary, "neutral",
            GenerateEmbedding(<<title, summary>>))

StoredTexts == {"A", "B"} \X {"- fact", "Summary unavailable."}

Stores(max) ==
    UNION { { [k \in 1..n |-> Enriched(k, t[k][1], t[k][2])] : t \in [1..n -> StoredTexts] } :
            n \in 0..max }

InitRetrieve ==
    /\ env = [NEWS_API_KEY |-> "nk", OPENAI_API_KEY |-> "sk", GEMINI_API_KEY |-> "gk"]
    /\ articles \in Stores(MaxStore)
    /\ fetch = FetchIdle
    /\ chat_history = <<>>
    /\ clock = 0
    /\ answer = NoAnswer
    /\ user_articles = <<>>
    /\ reqs = <<>>
    /\ peer = PeerIdle

SpecRetrieve == InitRetrieve /\ [][Retrieve]_vars

InitChat ==
    /\ env \in [NEWS_API_KEY : {"nk"}, OPENAI_API_KEY : {"", "sk"},
                GEMINI_API_KEY : {NULL, "gk"}]
    /\ articles \in Stores(1)
    /\ fetch = FetchIdle
    /\ chat_history = <<>>
    /\ clock = 0
    /\ answer = NoAnswer
    /\ user_articles = <<>>
    /\ reqs = <<>>
    /\ peer = PeerIdle

NextChat ==
    \/ AnswerBegin \/ AnswerReply \/ AnswerCommit
    \/ IngestDuringAnswer \/ PeerStamp \/ PeerCommit

SpecChat == InitChat /\ [][NextChat]_vars

InitSimilarity ==
    /\ env = [NEWS_API_KEY |-> "nk", OPENAI_API_KEY |-> "sk", GEMINI_API_KEY |-> "gk"]
    /\ articles = <<>>
    /\ fetch = FetchIdle
    /\ chat_history = <<>>
    /\ clock = 0
    /\ answer = NoAnswer
    /\ user_articles = <<>>
    /\ reqs = <<>>
    /\ peer = PeerIdle

SpecSimilarity == InitSimilarity /\ [][Similarity]_vars

InitInteract ==
    /\ env = [NEWS_API_KEY |-> "nk", OPENAI_API_KEY |-> "sk", GEMINI_API_KEY |-> "gk"]
    /\ articles = <<Enriched(1, "A", "- fact")>>
    /\ fetch = FetchIdle
    /\ chat_history = <<>>
    /\ clock = 0
    /\ answer = NoAnswer
    /\ user_articles = <<>>
    /\ reqs = [w \in Workers |-> ReqIdle]
    /\ peer = PeerIdle

NextInteract ==
    \E w \in Workers :
       \/ ReqStart(w) \/ ReqLookup(w) \/ ReqBuild(w) \/ ReqCreate(w) \/ ReqReload(w)
       \/ ReqAssign(w) \/ ReqCommit(w) \/ ReqEnd(w)

SpecInteract == InitInteract /\ [][NextInteract]_vars

NextIngest ==
    \/ FetchBegin \/ FetchResponse \/ FetchCheck \/ FetchExtract \/ FetchSummarize
    \/ FetchSentiment \/ FetchEmbed \/ FetchSave \/ ConcurrentCommit \/ FetchReturn

SpecIngest == InitIngest /\ [][NextIngest]_vars

\* ------------------------------------------------- properties of ingestion
\* The events item number k caused, in call order.
RECURSIVE EventNames(_, _)
EventNames(log, k) ==
    IF log = <<>> THEN <<>>
    ELSE IF Head(log).i = k THEN <<Head(log).ev>> \o EventNames(Tail(log), k)
    ELSE EventNames(Tail(log), k)

Enrichment == {"summarize", "sentiment", "embed", "add", "commit"}

UniqueUrls(table) ==
    \A j, k \in 1..Len(table) : table[j].url = table[k].url => j = k

\* This call repeats, with the same single candidate, the call that returned 1
\* just before it, and has gone through its list.
IsRepeat == fetch.prev # <<>> /\ fetch.n = 1 /\ fetch.i = 2 /\ fetch.items = fetch.prev

\* C1: the articles table never holds two rows with one URL, whatever the
\* result lists were; and the immediate repeat of a call that stored its single
\* candidate skips it as a duplicate, enriches nothing and returns 0.
C1_NoDuplicateUrl ==
    /\ UniqueUrls(articles)
    /\ IsRepeat => /\ fetch.dec = <<"duplicate">>
                   /\ fetch.log = <<>>
                   /\ Len(articles) = fetch.base + fetch.others
                   /\ fetch.pc \in {"loop", "returned"}
                   /\ fetch.pc = "returned" => fetch.ret = 0

C1_Witness ==
    /\ IsRepeat
    /\ fetch.pc = "returned"
    /\ HasUrl(articles, fetch.items[1].url)

\* The positions of a call inside its loop.
InLoop == {"loop", "extract", "summarize", "sentiment", "embed", "save"}

\* The step in which a pass ends (an item rejected, a call raising, or the
\* save), seen from the two states of the step.
IsPass == fetch.pc \in InLoop /\ fetch'.i = fetch.i + 1
PassItem == fetch'.items[fetch.i]
PassEvents == EventNames(fetch'.log, fetch.i)
PassText == fetch'.texts[fetch.i]
PassDec == fetch'.dec[fetch.i]

\* The step in which an item is taken and checked (FetchCheck), and the step
\* in which its text comes back (FetchExtract).
IsCheck == fetch.pc = "loop" /\ Len(fetch'.items) = Len(fetch.items) + 1
IsExtract == fetch.pc = "extract" /\ fetch'.pc # "extract"

IsPrefix(s, t) == Len(s) <= Len(t) /\ s = SubSeq(t, 1, Len(s))

\* C2: an item without title or URL, or whose URL is stored when the item is
\* checked, causes no extraction and no enrichment; an item whose extracted
\* text is absent or shorter than 200 characters causes no summarization,
\* classification, embedding or persistence; only an item that went through
\* the enrichment is saved; and whatever is invoked for an item is invoked in
\* the order extract, summarize, classify, embed, add, commit.
C2_ChecksBeforeEnrichment ==
    [][ /\ IsCheck =>
             /\ (Falsy(PassItem.title) \/ Falsy(PassItem.url)
                    \/ HasUrl(articles, PassItem.url))
                   => (IsPass /\ PassEvents = <<>>)
             /\ articles' = articles
        /\ IsExtract =>
             /\ (PassText.none \/ PassText.len < 200)
                   => (IsPass /\ PassEvents = <<"extract">> /\ fetch'.pc = "loop")
             /\ articles' = articles
        /\ (articles' # articles /\ fetch'.others = fetch.others) => fetch.pc = "save"
        /\ (fetch.pc = "save" /\ IsPass)
             => EventNames(fetch.log, fetch.i)
                   = <<"extract", "summarize", "sentiment", "embed">>
        /\ fetch.pc \in InLoop =>
             \/ IsPrefix(EventNames(fetch'.log, fetch.i),
                         <<"extract", "summarize", "sentiment", "embed", "add", "commit",
                           "rollback">>)
             \/ EventNames(fetch'.log, fetch.i)
                   = <<"extract", "summarize", "sentiment", "embed", "rollback">>
      ]_vars

\* A duplicate skipped, a text rejected and an article stored, in one call.
C2_Witness ==
    /\ fetch.pc = "returned"
    /\ {"no_text", "saved"} \subseteq Range(fetch.dec)
    /\ \E k \in 1..Len(fetch.dec) :
         fetch.dec[k] = "duplicate" /\ ~IsBadItem(fetch.items[k])

\* The pass has reached the save and the save has failed: nothing was added
\* to the session, or the commit did not add the row.
SaveFailed ==
    /\ IsPass
    /\ "embed" \in Range(PassEvents)
    /\ Len(articles') = Len(articles)

\* C3: a pass whose save fails leaves the table as it was (so the articles of
\* the earlier items stay, and the failed item has no row), counts nothing,
\* rolls back and hands over to the next pass; a call that returns has decided
\* every item, and no call ends at an item whose save failed.
C3_PerItemRollback ==
    /\ [][ SaveFailed =>
             /\ articles' = articles
             /\ PassDec = "db_error"
             /\ fetch'.new_articles = fetch.new_articles
             /\ PassEvents[Len(PassEvents)] = "rollback"
             /\ fetch'.pc = "loop"
         ]_vars
    /\ [](fetch.pc = "returned" => Len(fetch.dec) = fetch.n)
    /\ [](\A k \in 1..Len(fetch.dec) :
            fetch.dec[k] = "db_error" =>
               (fetch.pc \in InLoop \cup {"returned"} \/ k < Len(fetch.dec)))

\* An article saved, then a commit that fails on the URL another invocation
\* has stored since the check, then a third item decided.
C3_Witness ==
    /\ fetch.pc = "returned"
    /\ Len(fetch.dec) = 3
    /\ fetch.dec[1] = "saved"
    /\ fetch.dec[2] = "db_error"
    /\ fetch.others = 1
    /\ Len(articles) = fetch.base + 2
    /\ articles[Len(articles)].url = fetch.items[2].url
    /\ "commit" \in Range(EventNames(fetch.log, 2))

\* C4 (as claimed): once the result list is there, the call does not raise:
\* it raises only before the loop, never during a pass.
C4_NeverRaisesInLoop == fetch.pc = "raised" => fetch.i = 0

\* C5: the count a call returns is the number of its items that were saved,
\* and, no other invocation having committed meanwhile (sequential execution),
\* the number of rows the table has gained since the call began; while the
\* loop runs the counter equals both.
NumSaved == Cardinality({ k \in 1..Len(fetch.dec) : fetch.dec[k] = "saved" })

C5_ReturnCountsCommitted ==
    /\ fetch.pc \in InLoop \cup {"request", "returned", "raised"} =>
         /\ fetch.new_articles = NumSaved
         /\ fetch.new_articles + fetch.others = Len(articles) - fetch.base
         /\ fetch.others = 0 => fetch.new_articles = Len(articles) - fetch.base
    /\ fetch.pc = "returned" => fetch.ret = fetch.new_articles

\* A call returns 1 after saving one item, rejecting one and rolling one back.
C5_Witness ==
    /\ fetch.pc = "returned"
    /\ fetch.ret = 1
    /\ fetch.others = 0
    /\ {"saved", "db_error"} \subseteq Range(fetch.dec)
    /\ Range(fetch.dec) \cap {"bad", "duplicate", "no_text"} # {}

\* C8 (as claimed): summarize_article never raises; it returns its degraded
\* string instead, so no pass of an ingest batch ends in it.
C8_SummarizeNeverRaises ==
    \A k \in 1..Len(fetch.dec) :
       fetch.dec[k] = "raised" =>
          "summarize" \notin Range(EventNames(fetch.log, k))

\* C14: when the request fails in transport, comes back with a non-success
\* HTTP status, or with a body whose status is not "ok", the call returns 0
\* and does not raise, nothing is extracted or enriched, and the articles
\* table is as it was when the call began (but for the rows other invocations
\* committed while the request was out).
C14_FailedRequestReturnsZero ==
    fetch.resp \in {"transport", "http_error", "not_ok"} =>
       /\ fetch.pc = "returned"
       /\ fetch.ret = 0
       /\ fetch.log = <<>>
       /\ fetch.dec = <<>>
       /\ fetch.texts = <<>>
       /\ fetch.new_articles = 0
       /\ Len(articles) = fetch.base + fetch.others

\* A non-success HTTP status, on a table an earlier call has filled, another
\* invocation having committed a row while the request was out.
C14_Witness ==
    /\ fetch.resp = "http_error"
    /\ fetch.pc = "returned"
    /\ fetch.ret = 0
    /\ fetch.base >= 1
    /\ fetch.others = 1

Sentiments == {"positive", "neutral", "negative"}

\* C16: every row of table articles, in every state, has a summary, one of
\* the three sentiments and an embedding, the embedding being that of its own
\* title and summary: no row holds only part of the enrichment.
C16_CommittedArticlesEnriched ==
    \A k \in 1..Len(articles) :
       /\ articles[k].summary # NULL
       /\ articles[k].sentiment \in Sentiments
       /\ articles[k].embedding.kind = "json"
       /\ articles[k].embedding =
             GenerateEmbedding(<<Strip(articles[k].title), Strip(articles[k].summary)>>)

\* Rows saved with the fallback summary and with a classified sentiment, in a
\* call that also lost an item to a failed save.
C16_Witness ==
    /\ \E k \in 1..Len(articles) : articles[k].summary = "Summary unavailable."
    /\ \E k \in 1..Len(articles) : articles[k].sentiment = "negative"
    /\ "db_error" \in Range(fetch.dec)

\* ------------------------------------------ properties of retrieval and chat
\* The similarity of the query of the last call to the j-th article returned.
ReturnedSim(j) ==
    ComputeSimilarity(GenerateEmbedding(<<answer.question>>),
                      articles[answer.relevant[j][2]].embedding).val

Retrieved == answer.op \in {"retrieve", "answer"}

AtMostTopK == Len(answer.relevant) <= answer.top_k

AllRelevant == \A j \in 1..Len(answer.relevant) : ReturnedSim(j) > 0

\* C6 (as claimed): what retrieve_relevant_articles returns is at most top_k
\* items, none with similarity <= 0, sorted strictly descending by similarity.
\* (Two articles of one similarity, such as two articles of one title that
\* both got the fallback summary, are returned side by side.)
C6_StrictlyDescending ==
    Retrieved =>
       /\ AtMostTopK
       /\ AllRelevant
       /\ \A j, k \in 1..Len(answer.relevant) : j < k => ReturnedSim(j) > ReturnedSim(k)

\* The rows of row numbers 2k-1 and 2k are one exchange: user, then bot.
IsExchange(u, b) ==
    /\ u.role = "user" /\ b.role = "bot"
    /\ u.timestamp = b.timestamp
    /\ u.user_id = b.user_id

\* C7: table chat_history is always a list of exchanges, a user turn followed
\* by a bot turn of the same timestamp; a call of answer_question whose commit
\* went through has appended exactly its two turns, and a call whose commit
\* failed has appended nothing.
C7_TurnsInPairs ==
    /\ Len(chat_history) % 2 = 0
    /\ \A k \in 1..(Len(chat_history) \div 2) :
         IsExchange(chat_history[2 * k - 1], chat_history[2 * k])
    /\ (answer.op = "answer" /\ answer.pc = "done") =>
         IF answer.raised THEN answer.after = answer.before
         ELSE /\ answer.after = answer.before + 2
              /\ Len(chat_history) >= answer.after
              /\ chat_history[answer.before + 1] =
                   ChatHistory("user", <<answer.provider, answer.question>>, answer.now,
                               answer.user)
              /\ chat_history[answer.before + 2] =
                   ChatHistory("bot", answer.text, answer.now, answer.user)

\* An exchange whose provider failed is logged, and then a commit fails.
C7_Witness ==
    /\ answer.op = "answer"
    /\ answer.pc = "done"
    /\ answer.raised
    /\ Len(chat_history) = 2
    /\ chat_history[2].message = "Sorry, something went wrong with OpenAI right now."

GeminiNames == {"gemini", "Gemini", "GEMINI"}

\* C9: _call_llm goes to the gemini adapter for "gemini" in any letter case and
\* to the openai adapter for every other provider, None included; the adapter
\* returns a text: its fixed message, without calling the provider, when its
\* key is missing; its apology when the provider call raises; the reply
\* otherwise.
C9_ProviderDispatch ==
    (answer.op = "answer" /\ answer.pc \in {"commit", "done"}) =>
       LET gemini == answer.provider \in GeminiNames
           key == IF gemini THEN env.GEMINI_API_KEY ELSE env.OPENAI_API_KEY
       IN  /\ answer.adapter = IF gemini THEN "gemini" ELSE "openai"
           /\ Falsy(key) =>
                /\ ~answer.called
                /\ answer.text = IF gemini THEN "Gemini API key is not configured."
                                 ELSE "OpenAI API key is not configured."
           /\ ~Falsy(key) =>
                /\ answer.called
                /\ answer.reply.raised =>
                     answer.text = IF gemini
                                   THEN "Sorry, something went wrong with Gemini right now."
                                   ELSE "Sorry, something went wrong with OpenAI right now."
                /\ ~answer.reply.raised => answer.text = "answer"

\* "GEMINI" reaches the gemini adapter, whose provider call raises.
C9_Witness ==
    /\ answer.op = "answer"
    /\ answer.pc = "done"
    /\ answer.provider = "GEMINI"
    /\ answer.adapter = "gemini"
    /\ answer.called
    /\ answer.text = "Sorry, something went wrong with Gemini right now."

\* The order of operations the specification gives: the items of similarity
\* <= 0 are dropped first, the descending ranking of the rest is truncated to
\* top_k.
FilterThenTruncate(query, top_k, table) ==
    LET query_emb == GenerateEmbedding(<<query>>)
    IN  IF query_emb = EmptyEmbedding THEN <<>>
        ELSE SliceTo(SortDesc(Positive(Scored(query_emb, table, 1))), top_k)

\* C15: for every table, query and top_k >= 0, what retrieve_relevant_articles
\* returns (sort, truncate to top_k, then drop similarity <= 0) is the list the
\* specified order gives (drop similarity <= 0, sort, truncate to top_k).
C15_TruncateFilterCommute ==
    answer.op = "retrieve" =>
       answer.relevant = FilterThenTruncate(answer.question, answer.top_k, articles)

\* The truncation and the filter both act: of four scored articles two are
\* asked for and one of these two has similarity <= 0.
C15_Witness ==
    /\ answer.op = "retrieve"
    /\ Len(articles) = 4
    /\ answer.top_k = 2
    /\ Len(answer.relevant) = 1

\* ------------------------------------------------- properties of interactions
\* The ratings stored are within 1..10: 15 is stored as 10 and -3 as 1.
RatingsClamped ==
    /\ \A k \in 1..Len(user_articles) :
         user_articles[k].rating = <<>> \/ user_articles[k].rating[1] \in 1..10
    /\ \A w \in Workers :
         (reqs[w].kind = "rate" /\ reqs[w].status = "ok") =>
            /\ reqs[w].rating > 10 => reqs[w].stored = 10
            /\ reqs[w].rating < 1 => reqs[w].stored = 1
            /\ reqs[w].rating \in 1..10 => reqs[w].stored = reqs[w].rating

\* C10 (as claimed): rate_article stores a numeric rating clamped into 1..10,
\* and a request whose rating is missing or no number is rejected without
\* having created a user_articles row.
C10_RejectedRatingChangesNothing ==
    /\ RatingsClamped
    /\ \A w \in Workers : reqs[w].status = "rejected" => ~reqs[w].created

\* C11 (as claimed): whatever the interleaving of the requests of the workers,
\* table user_articles holds at most one row for a (user, article) pair.
C11_OneRowPerUserArticle ==
    \A j, k \in 1..Len(user_articles) :
       (/\ user_articles[j].user_id = user_articles[k].user_id
        /\ user_articles[j].article_id = user_articles[k].article_id) => j = k

\* -------------------------------------------------- properties of similarity
\* An argument compute_similarity cannot use: None, no JSON, or the sentinel.
Unusable(vec) == vec.kind # "json" \/ vec.vec = <<>>

Mismatched(vec1, vec2) ==
    vec1.kind = "json" /\ vec2.kind = "json" /\ Len(vec1.vec) # Len(vec2.vec)

ZeroVector(vec) ==
    vec.kind = "json" /\ vec.vec # <<>> /\ \A k \in 1..Len(vec.vec) : vec.vec[k] = 0

\* C12: when either argument is the sentinel "[]", None or no JSON, or the two
\* vectors differ in dimension, compute_similarity returns exactly 0.0,
\* whatever the other argument is and in either position.
C12_MalformedGivesZero ==
    answer.op = "similarity" =>
       ((Unusable(answer.vec1) \/ Unusable(answer.vec2)
            \/ Mismatched(answer.vec1, answer.vec2))
        => answer.result = Float(0))

\* The sentinel against an all-zero vector, the sentinel second.
C12_Witness ==
    /\ answer.op = "similarity"
    /\ ZeroVector(answer.vec1)
    /\ answer.vec2 = EmptyEmbedding
    /\ answer.result = Float(0)

\* C13 (as claimed): the result is always a number within [-1.0, 1.0], and it
\* is 0.0 when an argument is a non-empty all-zero vector.
C13_ZeroMagnitudeGivesZero ==
    answer.op = "similarity" =>
       /\ ~answer.result.nan
       /\ answer.result.val \in -100..100
       /\ (ZeroVector(answer.vec1) \/ ZeroVector(answer.vec2)) => answer.result = Float(0)

====
